---- MODULE Spec2Model ----
(***************************************************************************)
(* USB power switch and filter firmware (firmware/main.c).                 *)
(*                                                                         *)
(* The main loop of main() is modelled as a state machine: one action for  *)
(* the loop body (timer, pin sampling, button debouncing, fault flag       *)
(* handling, power and LED outputs), one for the check-then-sleep step at  *)
(* the end of the body and one for the watchdog interrupt that produces    *)
(* the 16ms ticks.  The variables carry the names of the locals of main()  *)
(* and of the I/O registers the code writes.                               *)
(*                                                                         *)
(* Port registers are sets of bit numbers: bit n is 1 iff n is in the set. *)
(* Pin B4 (the fault flag) is wired open-drain: the level read from PINB   *)
(* is the level of the pin itself, so it is low while the external switch  *)
(* pulls it low and also while the firmware drives it low (DDB4 set,       *)
(* PORTB4 clear).                                                          *)
(***************************************************************************)
EXTENDS Integers, Sequences, FiniteSets, TLC

\* ------------------------------------------------------------------ bounds
\* Number of watchdog time-outs (ticks) explored in one behaviour.
MaxTicks == 12

\* Saturation value of the history counters that count ticks and presses.
HistCap == 4

\* Saturation value of the counter of ticks over which the button is held.
HoldCap == 260

\* Number of watchdog time-outs explored by the interrupt-level specification.
MaxTicksIrq == 5

\* Number of ticks over which the button is free before a long press.
FreeTicks == 6

\* Value of `now` at which the wraparound specification starts (the loop has
\* idled that many ticks: button released, no fault).
WrapStart == 250

\* -------------------------------------------------------- program constants
\* uint8_t arithmetic
Byte == 256

\* Release time, in ticks, after which a new press is accepted
DEBOUNCE_TICKS == 3

\* Length of the fault flag pulse in ticks
FLAG_TICKS == 2

\* Port B bit numbers
PB0 == 0
PB1 == 1
PB2 == 2
PB3 == 3
PB4 == 4

LED_OFF == {}
LED_RED == {PB0}
LED_GREEN == {PB1}
\* LED_MASK is the complement of the two LED bits: x & LED_MASK == x \ LedBits
LedBits == {PB0, PB1}

PIN_BUTTON == PB2
PIN_FLAG == PB4

\* Pin-change interrupt n watches pin Bn.
PCINT3 == 3
\* PCMSK after line 86
PCMSK == {PCINT3}

VARIABLES
    now,            \* uint8_t now: tick counter
    btnState,       \* button sample of the previous iteration
    btnTime,        \* tick of the last iteration that saw the button pressed
    flagTriggered,  \* fault latch
    flagTrigTime,   \* tick at which the current flag pulse began
    flagSet,        \* B4 is being driven low by the firmware
    powerOn,        \* power state
    debounceOk,     \* ready to accept a press
    btnStateNow,    \* button sample of the latest iteration
    flagStateNow,   \* fault flag sample of the latest iteration
    PORTB,          \* PORTB register
    DDRB,           \* DDRB register
    WDIE,           \* WDTCR.WDIE: set = armed, clear = watchdog timed out
    pc,             \* "loop" (line 100), "check" (line 175), "sleep" (line 181)
    \* history variables (not read by the program)
    ticks,          \* watchdog time-outs so far
    pre,            \* locals at the start of the latest iteration
    accepted,       \* the latest iteration ran lines 121-126
    sincePress,     \* ticks counted since the last pressed sample (saturating)
    relReady,       \* a released iteration with sincePress >= 3 since last accept
    gapOk,          \* the latest accepted press was the first or had relReady
    nAccepted,      \* accepted presses so far (saturating)
    everFault,      \* some iteration sampled the fault flag asserted
    pressesSinceFault, \* accepted presses since the last asserted sample
    sinceStart,     \* ticks counted since the latest pulse start (saturating)
    contAsserted,   \* flag sampled asserted in every iteration since that start
    lastGap,        \* ticks between the two latest pulse starts, if contAsserted
    pulseEnded,     \* the latest iteration released B4 (lines 155-156)
    scen,           \* button samples so far, while they follow a scenario
    entered,        \* the loop body has run at least once
    held,           \* ticks counted over the current run of pressed samples
    holdAccepts,    \* presses accepted during that run (saturating)
    \* interrupt machinery, used by the interrupt-level specification
    I,              \* SREG.I: interrupts enabled
    WDIF,           \* watchdog interrupt pending
    PCIF,           \* pin-change interrupt pending
    extLine,        \* the power switch is pulling the fault flag line low
    tickAt,         \* history: value of pc at the latest watchdog time-out
    edgeAsleep      \* history: the flag line was pulled low during this sleep

progVars == <<now, btnState, btnTime, flagTriggered, flagTrigTime, flagSet,
              powerOn, debounceOk, btnStateNow, flagStateNow, PORTB, DDRB,
              WDIE, pc>>
histVars == <<ticks, pre, accepted, sincePress, relReady, gapOk, nAccepted,
              everFault, pressesSinceFault, sinceStart, contAsserted, lastGap,
              pulseEnded, scen, entered, held, holdAccepts>>
irqVars == <<I, WDIF, PCIF, extLine, tickAt, edgeAsleep>>
vars == <<progVars, histVars, irqVars>>

Min(a, b) == IF a < b THEN a ELSE b

\* ------------------------------------------------------------- arithmetic
\* Mutant: the subtraction without the cast to uint8_t (int promotion).
SubNoCast(a, b) == a - b

\* (uint8_t)(a - b)
Sub8(a, b) == (a - b + Byte) % Byte

\* now++ on a uint8_t
Inc8(a) == (a + 1) % Byte

\* ------------------------------------------------------------------ macros
\* Mutant: LEDSET without the mask.
LEDSET_NoMask(portb, state) == portb \cup state

\* LEDSET(state): PORTB = (PORTB & LED_MASK) | state
LEDSET(portb, state) == (portb \ LedBits) \cup state

\* POWERON(): PORTB &= ~_BV(PORTB3)
POWERON(portb) == portb \ {PB3}

\* POWEROFF(): PORTB |= _BV(PORTB3)
POWEROFF(portb) == portb \cup {PB3}

\* FLAGSET(): B4 as output low
FLAGSET(s) == [s EXCEPT !.PORTB = @ \ {PB4}, !.DDRB = @ \cup {PB4}]

\* FLAGCLEAR(): B4 as input with pullup
FLAGCLEAR(s) == [s EXCEPT !.DDRB = @ \ {PB4}, !.PORTB = @ \cup {PB4}]

\* WDT_INT_RESET(): WDTCR |= _BV(WDIE)|_BV(WDE)
WDT_INT_RESET(wdie) == TRUE

\* WDT_TIMEDOUT(): !(WDTCR & _BV(WDIE))
WDT_TIMEDOUT(wdie) == ~wdie

\* PINB as read at line 110.  btnPressed and extFault are the external
\* levels: the button shorts B2 to ground, the power switch pulls B4 low.
\* An output pin reads back the level it drives.
PINB(portb, ddrb, btnPressed, extFault) ==
    (IF btnPressed THEN {} ELSE {PB2})
    \cup (IF PB4 \in ddrb
          THEN (IF PB4 \in portb THEN {PB4} ELSE {})
          ELSE (IF extFault THEN {} ELSE {PB4}))

\* ---------------------------------------------------------------- the body
\* The locals of main() and the port registers, as one record.
Locals == [now |-> now, btnState |-> btnState, btnTime |-> btnTime,
           flagTriggered |-> flagTriggered, flagTrigTime |-> flagTrigTime,
           flagSet |-> flagSet, powerOn |-> powerOn, debounceOk |-> debounceOk,
           PORTB |-> PORTB, DDRB |-> DDRB]

\* Mutant: every iteration counts a tick.
Timer_AlwaysCounts(s, timedOut) == [s EXCEPT !.now = Inc8(@)]

\* Lines 103-107: count a tick if the watchdog timed out.
Timer(s, timedOut) == IF timedOut THEN [s EXCEPT !.now = Inc8(@)] ELSE s

\* Mutant: a press also switches the power while the fault flag is latched.
Accept_AckTogglesPower(s) ==
    [s EXCEPT !.debounceOk = FALSE, !.flagTriggered = FALSE, !.powerOn = ~@]

\* Mutant: a press does not clear the latched fault flag.
Accept_NoAck(s) ==
    IF s.flagTriggered
    THEN [s EXCEPT !.debounceOk = FALSE]
    ELSE [s EXCEPT !.debounceOk = FALSE, !.powerOn = ~@]

\* Lines 121-126: a press is accepted.
Accept(s) ==
    IF s.flagTriggered
    THEN [s EXCEPT !.debounceOk = FALSE, !.flagTriggered = FALSE]
    ELSE [s EXCEPT !.debounceOk = FALSE, !.powerOn = ~@]

\* Mutant: every rising edge is accepted (debounceOk is not tested).
Button_NoDebounce(s, pressed) ==
    LET s1 == IF pressed
              THEN [(IF ~s.btnState THEN Accept(s) ELSE s)
                       EXCEPT !.btnTime = s.now]
              ELSE IF Sub8(s.now, s.btnTime) >= DEBOUNCE_TICKS
                   THEN [s EXCEPT !.debounceOk = TRUE]
                   ELSE s
    IN [s1 EXCEPT !.btnState = pressed]

\* Mutant: btnTime is recorded only when the press is accepted.
Button_TimeOnAccept(s, pressed) ==
    LET s1 == IF pressed
              THEN IF ~s.btnState /\ s.debounceOk
                   THEN [Accept(s) EXCEPT !.btnTime = s.now]
                   ELSE s
              ELSE IF Sub8(s.now, s.btnTime) >= DEBOUNCE_TICKS
                   THEN [s EXCEPT !.debounceOk = TRUE]
                   ELSE s
    IN [s1 EXCEPT !.btnState = pressed]

\* Lines 115-137: button processing.  pressed is btnStateNow.
Button(s, pressed) ==
    LET s1 == IF pressed
              THEN [(IF ~s.btnState /\ s.debounceOk THEN Accept(s) ELSE s)
                       EXCEPT !.btnTime = s.now]
              ELSE IF Sub8(s.now, s.btnTime) >= DEBOUNCE_TICKS
                   THEN [s EXCEPT !.debounceOk = TRUE]
                   ELSE s
    IN [s1 EXCEPT !.btnState = pressed]

\* Mutant: the fault flag latches but the power is left as it is.
Flag_NoCut(s, asserted) ==
    IF asserted
    THEN LET s1 == IF ~s.flagSet THEN [s EXCEPT !.flagTrigTime = s.now] ELSE s
         IN FLAGSET([s1 EXCEPT !.flagTriggered = TRUE, !.flagSet = TRUE])
    ELSE s

\* Mutant: the start time of the pulse is written on every asserted sample.
Flag_Rearm(s, asserted) ==
    IF asserted
    THEN FLAGSET([s EXCEPT !.flagTrigTime = s.now, !.flagTriggered = TRUE,
                           !.powerOn = FALSE, !.flagSet = TRUE])
    ELSE s

\* Lines 139-151: fault flag asserted.  asserted is flagStateNow.
Flag(s, asserted) ==
    IF asserted
    THEN LET s1 == IF ~s.flagSet THEN [s EXCEPT !.flagTrigTime = s.now] ELSE s
         IN FLAGSET([s1 EXCEPT !.flagTriggered = TRUE, !.powerOn = FALSE,
                                !.flagSet = TRUE])
    ELSE s

\* Mutant: the pulse is released one tick late.
PulseEnd_Late(s) ==
    IF s.flagTriggered /\ s.flagSet
       /\ Sub8(s.now, s.flagTrigTime) >= FLAG_TICKS + 1
    THEN [FLAGCLEAR(s) EXCEPT !.flagSet = FALSE]
    ELSE s

\* Mutant: the end of the pulse also clears the fault latch.
PulseEnd_ClearsLatch(s) ==
    IF s.flagTriggered /\ s.flagSet
       /\ Sub8(s.now, s.flagTrigTime) >= FLAG_TICKS
    THEN [FLAGCLEAR(s) EXCEPT !.flagSet = FALSE, !.flagTriggered = FALSE]
    ELSE s

\* Lines 153-157: end of the flag pulse.
PulseEnd(s) ==
    IF s.flagTriggered /\ s.flagSet
       /\ Sub8(s.now, s.flagTrigTime) >= FLAG_TICKS
    THEN [FLAGCLEAR(s) EXCEPT !.flagSet = FALSE]
    ELSE s

\* Lines 160-172: power output and LEDs.
Outputs(s) ==
    IF s.powerOn
    THEN [s EXCEPT !.PORTB = POWERON(LEDSET(@, LED_GREEN))]
    ELSE IF s.flagTriggered
         THEN [s EXCEPT !.PORTB = LEDSET(POWEROFF(@), LED_RED)]
         ELSE [s EXCEPT !.PORTB = LEDSET(POWEROFF(@), LED_OFF)]

\* Mutant: the pulse is released before a new one is armed.
Body_EndBeforeStart(s, timedOut, pinb) ==
    Outputs(Flag(PulseEnd(Button(Timer(s, timedOut),
                                 PIN_BUTTON \notin pinb)),
                 PIN_FLAG \notin pinb))

\* Lines 103-172: one pass through the loop body, given whether the watchdog
\* had timed out and the value read from PINB.
Body(s, timedOut, pinb) ==
    Outputs(PulseEnd(Flag(Button(Timer(s, timedOut),
                                 PIN_BUTTON \notin pinb),
                          PIN_FLAG \notin pinb)))

\* What the outputs show.
LedRed == PB0 \in PORTB
LedGreen == PB1 \in PORTB
PowerActive == PB3 \notin PORTB
FlagDrivenLow == PB4 \in DDRB /\ PB4 \notin PORTB

\* ------------------------------------------------------------ the scenarios
\* Button samples of the iterations at ticks 0, 1, 2, ... (no fault).
\* ScenA: press at 0, release at 1, press at 2, release at 3, press at 4.
ScenA == <<TRUE, FALSE, TRUE, FALSE, TRUE>>
\* ScenB: as ScenA up to tick 3, then released until the press at tick 6.
ScenB == <<TRUE, FALSE, TRUE, FALSE, FALSE, FALSE, TRUE>>
\* Value of scen once the samples have left both scenarios.
Dead == <<FALSE>>

IsPrefix(p, q) == Len(p) <= Len(q) /\ \A i \in 1..Len(p) : p[i] = q[i]

\* ------------------------------------------------------------------- Init
\* Mutant: every local starts at zero.
InitProgAt_AllZero(n0) ==
    /\ now = n0
    /\ btnState = FALSE
    /\ btnTime = 0
    /\ flagTriggered = FALSE
    /\ flagTrigTime = 0
    /\ flagSet = FALSE
    /\ powerOn = FALSE
    /\ debounceOk = FALSE
    /\ btnStateNow = FALSE
    /\ flagStateNow = FALSE
    /\ PORTB = {PB2, PB3, PB4}
    /\ DDRB = {PB0, PB1, PB3}
    /\ WDIE = TRUE
    /\ pc = "loop"

\* Lines 69-70, 80, 84 and 89-96: the state when the loop is entered.
InitProgAt(n0) ==
    /\ now = n0
    /\ btnState = FALSE
    /\ btnTime = 0
    /\ flagTriggered = FALSE
    /\ flagTrigTime = 0
    /\ flagSet = FALSE
    /\ powerOn = FALSE
    /\ debounceOk = TRUE
    /\ btnStateNow = FALSE
    /\ flagStateNow = FALSE
    /\ PORTB = {PB2, PB3, PB4}
    /\ DDRB = {PB0, PB1, PB3}
    /\ WDIE = TRUE
    /\ pc = "loop"

InitProg == InitProgAt(0)

InitHist ==
    /\ ticks = 0
    /\ pre = [powerOn |-> FALSE, flagTriggered |-> FALSE, flagSet |-> FALSE,
              debounceOk |-> TRUE, btnState |-> FALSE, btnTime |-> 0,
              flagTrigTime |-> 0, now |-> 0, WDIE |-> TRUE]
    /\ accepted = FALSE
    /\ sincePress = 0
    /\ relReady = FALSE
    /\ gapOk = TRUE
    /\ nAccepted = 0
    /\ everFault = FALSE
    /\ pressesSinceFault = 0
    /\ sinceStart = 0
    /\ contAsserted = FALSE
    /\ lastGap = 0
    /\ pulseEnded = FALSE
    /\ scen = << >>
    /\ entered = FALSE
    /\ held = 0
    /\ holdAccepts = 0

\* Lines 86-87 and 98: interrupts are enabled and none is pending; the
\* fault flag line is idle.
InitIrq ==
    /\ I = TRUE
    /\ WDIF = FALSE
    /\ PCIF = FALSE
    /\ extLine = FALSE
    /\ tickAt = "none"
    /\ edgeAsleep = FALSE

Init == InitProg /\ InitHist /\ InitIrq

\* ---------------------------------------------------------------- actions
\* Lines 100-172: one iteration of the loop body.  The button and the power
\* switch set the levels of B2 and B4 at the moment PINB is read: the button
\* is pressed or not as BtnLevels allows, the switch asserts the fault flag
\* or not as FaultLevels allows.
IterateWith(BtnLevels, FaultLevels) ==
    /\ pc = "loop"
    /\ \E btnPressed \in BtnLevels, extFault \in FaultLevels :
        LET timedOut == WDT_TIMEDOUT(WDIE)
            pinb     == PINB(PORTB, DDRB, btnPressed, extFault)
            press    == PIN_BUTTON \notin pinb
            flag     == PIN_FLAG \notin pinb
            n        == Body(Locals, timedOut, pinb)
            tick     == IF timedOut THEN 1 ELSE 0
            acc      == press /\ ~btnState /\ debounceOk
            \* a pulse begins: B4 goes from released to driven, or the
            \* start time of the pulse is written anew
            started  == n.flagSet /\ (~flagSet \/ n.flagTrigTime # flagTrigTime)
            since    == IF press THEN 0 ELSE Min(sincePress + tick, HistCap)
            e        == Append(scen, press)
            \* a change of the power state or of the latch that the fault
            \* flag did not make
            chg      == \/ n.powerOn /\ ~powerOn
                        \/ flagTriggered /\ ~n.flagTriggered
                        \/ ~flag /\ powerOn /\ ~n.powerOn
            ev       == acc \/ chg
        IN  /\ now' = n.now
            /\ btnState' = n.btnState
            /\ btnTime' = n.btnTime
            /\ flagTriggered' = n.flagTriggered
            /\ flagTrigTime' = n.flagTrigTime
            /\ flagSet' = n.flagSet
            /\ powerOn' = n.powerOn
            /\ debounceOk' = n.debounceOk
            /\ PORTB' = n.PORTB
            /\ DDRB' = n.DDRB
            /\ btnStateNow' = press
            /\ flagStateNow' = flag
            /\ pre' = [powerOn |-> powerOn, flagTriggered |-> flagTriggered,
                       flagSet |-> flagSet, debounceOk |-> debounceOk,
                       btnState |-> btnState, btnTime |-> btnTime,
                       flagTrigTime |-> flagTrigTime, now |-> now,
                       WDIE |-> WDIE]
            /\ accepted' = acc
            /\ sincePress' = since
            /\ relReady' = IF ev THEN FALSE
                           ELSE relReady \/ (~press /\ since >= DEBOUNCE_TICKS)
            /\ gapOk' = IF ev THEN (nAccepted = 0 \/ relReady) ELSE gapOk
            /\ nAccepted' = IF ev THEN Min(nAccepted + 1, HistCap) ELSE nAccepted
            /\ everFault' = (everFault \/ flag)
            /\ pressesSinceFault' =
                   IF flag THEN 0
                   ELSE IF acc THEN Min(pressesSinceFault + 1, HistCap)
                   ELSE pressesSinceFault
            /\ sinceStart' = IF started THEN 0 ELSE Min(sinceStart + tick, HistCap)
            /\ contAsserted' = IF started THEN TRUE ELSE contAsserted /\ flag
            /\ lastGap' = IF started /\ contAsserted
                          THEN Min(sinceStart + tick, HistCap) ELSE 0
            /\ pulseEnded' = (((flagSet \/ flag) /\ ~n.flagSet)
                              \/ (flagSet /\ started))
            /\ scen' = IF /\ scen # Dead
                          /\ ~flag
                          /\ n.now = Len(scen)
                          /\ (IsPrefix(e, ScenA) \/ IsPrefix(e, ScenB))
                       THEN e ELSE Dead
            /\ entered' = TRUE
            /\ held' = IF ~press THEN 0
                       ELSE IF ~btnStateNow THEN 0
                       ELSE Min(held + tick, HoldCap)
            /\ holdAccepts' =
                   IF ~press THEN 0
                   ELSE Min((IF btnStateNow THEN holdAccepts ELSE 0)
                            + (IF ev THEN 1 ELSE 0), HistCap)
    \* WDT_INT_RESET() at line 105 sets WDIE again
    /\ WDIE' = IF WDT_TIMEDOUT(WDIE) THEN WDT_INT_RESET(WDIE) ELSE WDIE
    /\ pc' = "check"
    /\ UNCHANGED ticks

\* Lines 175-184: with interrupts disabled, sleep unless the watchdog has
\* timed out meanwhile; sei() takes effect after sleep_cpu() has started.
SleepCheck ==
    /\ pc = "check"
    /\ pc' = IF ~WDT_TIMEDOUT(WDIE) THEN "sleep" ELSE "loop"
    /\ UNCHANGED <<now, btnState, btnTime, flagTriggered, flagTrigTime, flagSet,
                   powerOn, debounceOk, btnStateNow, flagStateNow, PORTB, DDRB,
                   WDIE, histVars, irqVars>>

\* The watchdog times out: its interrupt clears WDIE and wakes the loop if it
\* is asleep (line 188; the handler itself is empty).  A time-out while WDIE
\* is still clear would reset the chip; the loop body is far shorter than
\* 16ms, so the next time-out finds WDIE set again.
WDT_vect ==
    /\ WDIE
    /\ ticks < MaxTicks
    /\ WDIE' = FALSE
    /\ ticks' = ticks + 1
    /\ pc' = IF pc = "sleep" THEN "loop" ELSE pc
    /\ UNCHANGED <<now, btnState, btnTime, flagTriggered, flagTrigTime, flagSet,
                   powerOn, debounceOk, btnStateNow, flagStateNow, PORTB, DDRB>>
    /\ UNCHANGED <<pre, accepted, sincePress, relReady, gapOk, nAccepted,
                   everFault, pressesSinceFault, sinceStart, contAsserted,
                   lastGap, pulseEnded, scen, entered, held, holdAccepts,
                   irqVars>>

\* One iteration with the button and the fault flag free.
Iterate == IterateWith(BOOLEAN, BOOLEAN) /\ UNCHANGED irqVars

Next == Iterate \/ SleepCheck \/ WDT_vect

Spec == Init /\ [][Next]_vars

\* The loop after it has idled for WrapStart ticks (button released, no
\* fault): only `now` and the tick counters differ from Init.
InitWrap ==
    /\ InitProgAt(WrapStart)
    /\ ticks = 0
    /\ pre = [powerOn |-> FALSE, flagTriggered |-> FALSE, flagSet |-> FALSE,
              debounceOk |-> TRUE, btnState |-> FALSE, btnTime |-> 0,
              flagTrigTime |-> 0, now |-> WrapStart, WDIE |-> TRUE]
    /\ accepted = FALSE
    /\ sincePress = HistCap
    /\ relReady = TRUE
    /\ gapOk = TRUE
    /\ nAccepted = 0
    /\ everFault = FALSE
    /\ pressesSinceFault = 0
    /\ sinceStart = 0
    /\ contAsserted = FALSE
    /\ lastGap = 0
    /\ pulseEnded = FALSE
    /\ scen = Dead
    /\ entered = FALSE
    /\ held = 0
    /\ holdAccepts = 0
    /\ InitIrq

SpecWrap == InitWrap /\ [][Next]_vars

\* ----------------------------------------------------------- long presses
\* The loop with no fault and no bound on the number of ticks, so that the
\* button can be held for more than 256 ticks: the tick count saturates at
\* FreeTicks, and from then on the button is left as it is.
IterateNoFault ==
    /\ IterateWith(IF ticks >= FreeTicks THEN {btnStateNow} ELSE BOOLEAN,
                   {FALSE})
    /\ UNCHANGED irqVars

WDT_vectHold ==
    /\ WDIE
    /\ WDIE' = FALSE
    /\ ticks' = Min(ticks + 1, FreeTicks)
    /\ pc' = IF pc = "sleep" THEN "loop" ELSE pc
    /\ UNCHANGED <<now, btnState, btnTime, flagTriggered, flagTrigTime, flagSet,
                   powerOn, debounceOk, btnStateNow, flagStateNow, PORTB, DDRB>>
    /\ UNCHANGED <<pre, accepted, sincePress, relReady, gapOk, nAccepted,
                   everFault, pressesSinceFault, sinceStart, contAsserted,
                   lastGap, pulseEnded, scen, entered, held, holdAccepts,
                   irqVars>>

NextHold == IterateNoFault \/ SleepCheck \/ WDT_vectHold

SpecHold == Init /\ [][NextHold]_vars

\* ------------------------------------------------------- interrupt level
\* The same loop with the check-then-sleep step split into its instructions
\* and the interrupts made explicit.  A watchdog time-out sets WDIF; the
\* interrupt runs when I is set, and it is the interrupt, not the time-out,
\* that clears WDIE.  A level change of a pin whose bit is set in PCMSK sets
\* PCIF.  Both handlers are empty: all they do is wake the loop.  The fault
\* flag line keeps its level between the edges the power switch makes.

\* A pending interrupt is taken before the next instruction of the loop.
MainMayRun == ~(I /\ (WDIF \/ PCIF))

\* Pin Bn has changed its level and is watched by the pin-change interrupt.
PinChanged(n, before, after) == n \in PCMSK /\ before # after

\* Level of pin B4: low if the switch pulls it low or the firmware drives it.
FlagPinLow(ddrb, portb, ext) ==
    IF PB4 \in ddrb THEN PB4 \notin portb ELSE ext

\* Lines 100-172 with the fault flag line at its current level.  Switching
\* the EN output (B3) is a level change of a watched pin.
IteratePins ==
    /\ MainMayRun
    /\ IterateWith(BOOLEAN, {extLine})
    /\ PCIF' = (PCIF
                \/ PinChanged(PB3, PB3 \in PORTB, PB3 \in PORTB')
                \/ PinChanged(PB4, FlagPinLow(DDRB, PORTB, extLine),
                                   FlagPinLow(DDRB', PORTB', extLine)))
    /\ edgeAsleep' = FALSE
    /\ UNCHANGED <<I, WDIF, extLine, tickAt>>

\* Mutant: interrupts stay enabled across the check.
Cli_NoDisable ==
    /\ pc = "check"
    /\ MainMayRun
    /\ pc' = "test"
    /\ UNCHANGED <<now, btnState, btnTime, flagTriggered, flagTrigTime, flagSet,
                   powerOn, debounceOk, btnStateNow, flagStateNow, PORTB, DDRB,
                   WDIE, histVars, irqVars>>

\* Line 175: cli()
Cli ==
    /\ pc = "check"
    /\ MainMayRun
    /\ pc' = "test"
    /\ I' = FALSE
    /\ UNCHANGED <<now, btnState, btnTime, flagTriggered, flagTrigTime, flagSet,
                   powerOn, debounceOk, btnStateNow, flagStateNow, PORTB, DDRB,
                   WDIE, histVars, WDIF, PCIF, extLine, tickAt, edgeAsleep>>

\* Line 176: if the watchdog has timed out, skip the sleep (line 184: sei());
\* else go on to lines 178-180.
Test ==
    /\ pc = "test"
    /\ MainMayRun
    /\ IF WDT_TIMEDOUT(WDIE)
       THEN pc' = "loop" /\ I' = TRUE
       ELSE pc' = "sei" /\ I' = I
    /\ UNCHANGED <<now, btnState, btnTime, flagTriggered, flagTrigTime, flagSet,
                   powerOn, debounceOk, btnStateNow, flagStateNow, PORTB, DDRB,
                   WDIE, histVars, WDIF, PCIF, extLine, tickAt, edgeAsleep>>

\* Lines 180-181: sei() and sleep_cpu().  The instruction that follows sei
\* is executed before any pending interrupt, so the two are one step.
SeiSleep ==
    /\ pc = "sei"
    /\ MainMayRun
    /\ pc' = "sleep"
    /\ I' = TRUE
    /\ UNCHANGED <<now, btnState, btnTime, flagTriggered, flagTrigTime, flagSet,
                   powerOn, debounceOk, btnStateNow, flagStateNow, PORTB, DDRB,
                   WDIE, histVars, WDIF, PCIF, extLine, tickAt, edgeAsleep>>

\* The watchdog times out.  A time-out before the loop has armed WDIE again
\* would reset the chip; the loop body is far shorter than 16ms.
WdtTimeout ==
    /\ WDIE
    /\ ~WDIF
    /\ ticks < MaxTicksIrq
    /\ WDIF' = TRUE
    /\ ticks' = ticks + 1
    /\ tickAt' = pc
    /\ UNCHANGED <<progVars, I, PCIF, extLine, edgeAsleep>>
    /\ UNCHANGED <<pre, accepted, sincePress, relReady, gapOk, nAccepted,
                   everFault, pressesSinceFault, sinceStart, contAsserted,
                   lastGap, pulseEnded, scen, entered, held, holdAccepts>>

\* Line 188: the watchdog interrupt.  The hardware clears WDIF and WDIE when
\* the handler is entered; a sleeping loop continues at line 182.
WDT_vectIrq ==
    /\ I
    /\ WDIF
    /\ WDIF' = FALSE
    /\ WDIE' = FALSE
    /\ pc' = IF pc = "sleep" THEN "loop" ELSE pc
    /\ UNCHANGED <<now, btnState, btnTime, flagTriggered, flagTrigTime, flagSet,
                   powerOn, debounceOk, btnStateNow, flagStateNow, PORTB, DDRB,
                   histVars, I, PCIF, extLine, tickAt, edgeAsleep>>

\* Line 189: the pin-change interrupt.
PCINT0_vect ==
    /\ I
    /\ PCIF
    /\ PCIF' = FALSE
    /\ pc' = IF pc = "sleep" THEN "loop" ELSE pc
    /\ UNCHANGED <<now, btnState, btnTime, flagTriggered, flagTrigTime, flagSet,
                   powerOn, debounceOk, btnStateNow, flagStateNow, PORTB, DDRB,
                   WDIE, histVars, I, WDIF, extLine, tickAt, edgeAsleep>>

\* The power switch pulls the fault flag line low or lets it go.
FaultEdge ==
    /\ extLine' = ~extLine
    /\ PCIF' = (PCIF \/ PinChanged(PB4, FlagPinLow(DDRB, PORTB, extLine),
                                        FlagPinLow(DDRB, PORTB, extLine')))
    /\ edgeAsleep' = IF pc = "sleep" THEN extLine' ELSE edgeAsleep
    /\ UNCHANGED <<progVars, histVars, I, WDIF, tickAt>>

NextIrq ==
    \/ IteratePins
    \/ Cli
    \/ Test
    \/ SeiSleep
    \/ WdtTimeout
    \/ WDT_vectIrq
    \/ PCINT0_vect
    \/ FaultEdge

SpecIrq == Init /\ [][NextIrq]_vars

\* ------------------------------------------------------------------ claims
\* The end of an iteration: the body has run and the sleep check is next.
EndOfIter == pc = "check"

\* C1: an iteration whose fault flag sample is asserted ends with the power
\* off, the fault latched, the LED red and the power-enable output inactive,
\* whatever the power state before and the button sample.
Thm_C1 ==
    EndOfIter /\ flagStateNow
        => ~powerOn /\ flagTriggered /\ LedRed /\ ~LedGreen /\ ~PowerActive

\* C1 witness: the press of this iteration would have switched the power on,
\* and the fault flag sampled in the same iteration kept it off.
Wit_C1 ==
    EndOfIter /\ flagStateNow /\ accepted /\ ~pre.powerOn /\ ~pre.flagTriggered

\* C2: the power goes from off to on only in an iteration that accepts a
\* press and starts with the fault latch clear; so once a fault was sampled
\* the power is on only after two accepted presses since the last asserted
\* sample.
Thm_C2 ==
    /\ EndOfIter /\ ~pre.powerOn /\ powerOn => accepted /\ ~pre.flagTriggered
    /\ everFault /\ powerOn => pressesSinceFault >= 2

\* C2 witness: the power has just been switched on again after a fault.
Wit_C2 == EndOfIter /\ everFault /\ ~pre.powerOn /\ powerOn

\* C3 as stated: an accepted press in an iteration that starts with the fault
\* latched ends with the latch clear and the power off, for every fault flag
\* sample.
CE_C3 ==
    EndOfIter /\ accepted /\ pre.flagTriggered => ~flagTriggered /\ ~powerOn

\* C3 amended: an accepted press in an iteration that starts with the fault
\* latched ends with the power off; the latch ends clear if the fault flag
\* sample of that iteration is de-asserted and set if it is asserted.
Thm_C3 ==
    EndOfIter /\ accepted /\ pre.flagTriggered
        => ~pre.powerOn /\ ~powerOn /\ (flagTriggered <=> flagStateNow)

\* C3 witness: an acknowledging press with the fault flag de-asserted.
Wit_C3 == EndOfIter /\ accepted /\ pre.flagTriggered /\ ~flagStateNow

\* C4: the button changes the power state or the fault latch only in an
\* iteration whose sample is pressed while the previous sample was released,
\* and between two such presses there is a released iteration at least 3
\* ticks after the last pressed sample.
Thm_C4 ==
    EndOfIter /\ (\/ powerOn /\ ~pre.powerOn
                  \/ pre.flagTriggered /\ ~flagTriggered
                  \/ ~flagStateNow /\ pre.powerOn /\ ~powerOn)
        => btnStateNow /\ ~pre.btnState /\ gapOk

\* C4 witness: a second press has changed the power state.
Wit_C4 == EndOfIter /\ accepted /\ nAccepted >= 2 /\ powerOn # pre.powerOn

\* C5: a flag pulse lasts exactly 2 ticks: B4 is driven low while fewer than
\* 2 ticks have passed since the pulse began and is released in the iteration
\* that sees the second tick, whatever the fault flag and the button do.
Thm_C5 ==
    /\ flagSet => /\ FlagDrivenLow
                  /\ sinceStart < FLAG_TICKS
                  /\ Sub8(now, flagTrigTime) = sinceStart
    /\ ~flagSet => ~FlagDrivenLow
    /\ pulseEnded => ~flagSet /\ sinceStart = FLAG_TICKS

\* C5 witness: the pulse ends in an iteration that also accepts a press.
Wit_C5 == EndOfIter /\ pulseEnded /\ accepted

\* C6 as stated: with the fault flag asserted throughout, the iteration that
\* ends a pulse starts the next one, pulse starts are 2 ticks apart and the
\* LED stays red.
CE_C6 ==
    /\ EndOfIter /\ pulseEnded /\ contAsserted => flagSet /\ flagTrigTime = now
    /\ lastGap \in {0, 2}
    /\ contAsserted => LedRed /\ ~LedGreen

\* C6 amended: with the fault flag asserted throughout, the iteration that
\* ends a pulse leaves B4 released, the next iteration starts the next pulse,
\* pulse starts are 3 ticks apart and the LED stays red.
Thm_C6 ==
    /\ pulseEnded => ~flagSet
    /\ EndOfIter /\ ~pre.flagSet /\ flagStateNow => flagSet /\ flagTrigTime = now
    /\ lastGap \in {0, 3}
    /\ contAsserted => LedRed /\ ~LedGreen

\* C6 witness: a second pulse has started under a continuously asserted flag.
Wit_C6 == EndOfIter /\ lastGap = 3 /\ contAsserted

\* C7: the fault latch is cleared only by an accepted press: it stays set
\* over every iteration that accepts none, whatever the fault flag does and
\* whether or not the pulse ends.
Thm_C7 == EndOfIter /\ pre.flagTriggered /\ ~flagTriggered => accepted

\* C7 witness: the fault flag is sampled de-asserted, no press is accepted
\* and the latch is still set.
Wit_C7 ==
    EndOfIter /\ pre.flagTriggered /\ flagTriggered /\ ~flagStateNow /\ ~accepted

\* C8: at the end of an iteration the outputs are a function of powerOn and
\* flagTriggered: green and power active; red and power inactive; or LED off
\* and power inactive.  Red and green are never both driven.
Thm_C8 ==
    EndOfIter =>
        /\ powerOn => LedGreen /\ ~LedRed /\ PowerActive
        /\ ~powerOn /\ flagTriggered => LedRed /\ ~LedGreen /\ ~PowerActive
        /\ ~powerOn /\ ~flagTriggered => ~LedRed /\ ~LedGreen /\ ~PowerActive

\* C8 witness: a fault has switched the outputs from green to red.
Wit_C8 == EndOfIter /\ pre.powerOn /\ ~powerOn /\ flagTriggered

\* C9 as stated (scenario A): the press at tick 0 switches the power on, the
\* press at tick 2 is ignored and the press at tick 4 is accepted and
\* switches the power off.
CE_C9 ==
    /\ scen = <<TRUE>> => powerOn /\ LedGreen /\ PowerActive
    /\ scen = <<TRUE, FALSE, TRUE>> => ~accepted /\ powerOn
    /\ scen = ScenA => accepted /\ ~powerOn

\* C9 amended: the press at tick 0 switches the power on, the presses at
\* ticks 2 and 4 are both ignored (each pressed sample restarts the debounce
\* time); with the button released at ticks 3 to 5 instead, the press at
\* tick 6 is accepted and switches the power off.
Thm_C9 ==
    /\ scen = <<TRUE>> => powerOn /\ LedGreen /\ PowerActive
    /\ scen = <<TRUE, FALSE, TRUE>> => ~accepted /\ powerOn
    /\ scen = ScenA => ~accepted /\ powerOn /\ LedGreen /\ PowerActive
    /\ scen = ScenB => accepted /\ ~powerOn

\* C9 witness: scenario A has run up to the press at tick 4.
Wit_C9 == EndOfIter /\ scen = ScenA /\ now = 4

\* C10: debounceOk becomes true in the first released iteration that is at
\* least 3 ticks after the last pressed sample and in no earlier one, also
\* when the tick counter wraps in between.
Thm_C10 ==
    EndOfIter /\ ~btnStateNow
        => (debounceOk <=> (pre.debounceOk \/ sincePress >= DEBOUNCE_TICKS))

\* C10 witness: last pressed at tick 254, ready again at tick 1.
Wit_C10 ==
    /\ EndOfIter /\ ~btnStateNow /\ ~pre.debounceOk /\ debounceOk
    /\ btnTime = 254 /\ now = 1

\* C12 as stated: when the loop begins its first iteration every field of the
\* state is 0 or false.
CE_C12 ==
    ~entered => /\ now = 0 /\ btnTime = 0 /\ flagTrigTime = 0
                /\ ~btnState /\ ~debounceOk /\ ~flagTriggered /\ ~flagSet
                /\ ~powerOn

\* C12 amended: when the loop begins its first iteration every field of the
\* state is 0 or false except debounceOk, which is true, so that a press
\* sampled by the first iteration is accepted.
Thm_C12 ==
    /\ ~entered => /\ now = 0 /\ btnTime = 0 /\ flagTrigTime = 0
                   /\ ~btnState /\ debounceOk /\ ~flagTriggered /\ ~flagSet
                   /\ ~powerOn
    /\ EndOfIter /\ pre.debounceOk /\ btnStateNow /\ ~pre.btnState => accepted

\* C12 witness: the loop is about to run its first iteration.
Wit_C12 == ~entered /\ pc = "loop" /\ debounceOk /\ ticks = 0

\* C15: the start time of the pulse is written, and B4 goes from released to
\* driven, only in an iteration whose fault flag sample is asserted while no
\* pulse is active; an asserted sample during a pulse leaves the start time
\* as it is and the pulse still ends 2 ticks after it began.
Thm_C15 ==
    /\ EndOfIter /\ (flagTrigTime # pre.flagTrigTime \/ (flagSet /\ ~pre.flagSet))
           => flagStateNow /\ ~pre.flagSet /\ flagTrigTime = now
    /\ EndOfIter /\ pre.flagSet /\ flagStateNow
           => /\ flagTrigTime = pre.flagTrigTime
              /\ flagSet <=> Sub8(now, flagTrigTime) < FLAG_TICKS

\* C15 witness: an asserted sample one tick into a pulse.
Wit_C15 ==
    EndOfIter /\ pre.flagSet /\ flagStateNow /\ flagSet /\ flagTrigTime # now

\* C16: the power is never on while the fault is latched, so the power-enable
\* output is never active with an unacknowledged fault.
Thm_C16 ==
    /\ ~(powerOn /\ flagTriggered)
    /\ EndOfIter /\ flagTriggered => ~PowerActive

\* C16 witness: the fault is still latched after the flag was de-asserted and
\* a press had been accepted before.
Wit_C16 == EndOfIter /\ flagTriggered /\ ~flagStateNow /\ nAccepted >= 1

\* C17: an iteration whose fault flag sample is de-asserted and that accepts
\* no press leaves the power state and the fault latch as they were; so does
\* an iteration that ends the pulse and accepts no press.
Thm_C17 ==
    /\ EndOfIter /\ ~flagStateNow /\ ~accepted
           => powerOn = pre.powerOn /\ flagTriggered = pre.flagTriggered
    /\ EndOfIter /\ pulseEnded /\ ~accepted
           => powerOn = pre.powerOn /\ flagTriggered = pre.flagTriggered

\* C17 witness: a press that is rejected because the debounce time has not
\* passed, with the fault latched.
Wit_C17 ==
    /\ EndOfIter /\ ~flagStateNow /\ ~accepted
    /\ btnStateNow /\ ~pre.btnState /\ pre.flagTriggered

\* C13: debounceOk is false at the end of every iteration that samples the
\* button pressed and of every released iteration fewer than 3 ticks after
\* the last pressed sample; a button held pressed, for however many ticks,
\* has at most one press accepted.
Thm_C13 ==
    /\ EndOfIter /\ btnStateNow => ~debounceOk
    /\ EndOfIter /\ ~btnStateNow /\ nAccepted >= 1
           /\ sincePress < DEBOUNCE_TICKS /\ ~pre.debounceOk => ~debounceOk
    /\ holdAccepts <= 1

\* C13 witness: the button has been held for more than 256 ticks after its
\* press was accepted.
Wit_C13 == EndOfIter /\ btnStateNow /\ held > Byte /\ holdAccepts = 1

\* Watchdog time-outs that the loop has not counted yet.
TicksPending == IF WDIF \/ WDT_TIMEDOUT(WDIE) THEN 1 ELSE 0

\* C11: the loop is never asleep with a tick it has not processed and cannot
\* be woken by: while it sleeps interrupts are enabled, the watchdog
\* interrupt has not run unnoticed, and every tick is counted or pending.
Thm_C11 ==
    pc = "sleep" => /\ I
                    /\ ~WDT_TIMEDOUT(WDIE)
                    /\ (WDIF \/ now = ticks % Byte)

\* C11 witness: the watchdog timed out between the check of line 176 and the
\* sleep instruction; the loop is asleep with the interrupt pending.
Wit_C11 == pc = "sleep" /\ WDIF /\ tickAt = "sei" /\ entered

\* C14 as stated: the pin-change mask covers the fault flag pin, so when the
\* switch pulls the released flag line low while the loop is asleep, the
\* pin-change interrupt is raised and wakes the loop.
CE_C14 == pc = "sleep" /\ edgeAsleep /\ ~flagSet => PIN_FLAG \in PCMSK /\ PCIF

\* C18: every tick is counted exactly once: an iteration adds at most 1 to
\* now, and only if it found the watchdog timed out, and now equals the
\* number of time-outs, less the one not yet counted, modulo 256.
Thm_C18 ==
    /\ now = (ticks - TicksPending) % Byte
    /\ EndOfIter => IF WDT_TIMEDOUT(pre.WDIE)
                    THEN now = Inc8(pre.now)
                    ELSE now = pre.now

\* C18 witness: three ticks have been produced and counted.
Wit_C18 == EndOfIter /\ ticks >= 3 /\ TicksPending = 0 /\ now = ticks

====
